---- MODULE Spec2Model ----
(***************************************************************************)
(* mKBI: the skill registry, the dual-model execution chain of             *)
(* LLMService.execute_task and the script executor, modelled from          *)
(* src/mKBI.py, and the HTTP endpoints of src/mKBI_api.py.  One facade     *)
(* call is in flight at a time; it interleaves with reload_skills and with *)
(* the steps of the script's processes.                                    *)
(*                                                                         *)
(* Spec       the facade called directly, reload_skills as one step        *)
(* SpecHttp   the facade called through the gated HTTP endpoints           *)
(* SpecLoad   load_skills file by file, beside readers of self.skills      *)
(* SpecLive   one run with its processes, under fair scheduling            *)
(***************************************************************************)
EXTENDS Integers, Sequences, FiniteSets, TLC

VARIABLES
    dir_exists,     \* the skills directory existed at the last scan
    dir_files,      \* stem -> parsed record of each *.json file scanned
    skills,         \* self.skills, the active registry
    alive,          \* the service process has not called sys.exit
    exec_timeout,   \* self.exec_timeout
    pc,             \* position of the facade call in flight
    op,             \* the facade call: "none", "execute", "interpret"
    user_request,   \* execute_task argument
    skill_name,     \* execute_task local: skill or self.default_skill
    output_only,    \* execute_task argument
    skill_data,     \* execute_task local, captured at line 304
    executor,       \* execute_task local, line 306
    extension,      \* execute_task local, line 307
    analysis_tool,  \* execute_task local, line 308
    result,         \* execute_task local, the result dict
    outcome,        \* how the run ended: "none", "dict", "str", "raise"
    ret_str,        \* the string returned when outcome = "str"
    exc,            \* the exception raised when outcome = "raise"
    calls,          \* the model calls the run issued, in order
    tmp_created,    \* the run created its temporary file
    tmp_exists,     \* the temporary file is on disk
    tmp_suffix,     \* suffix the temporary file was created with
    analysis_cmds,  \* analysis command lines the run invoked, in order
    analysis_rc,    \* exit status of the analysis tool, once it has run
    analysis_which, \* shutil.which for the tool: "none" (not asked),
                    \* "found", "missing"
    exec_cmds,      \* executor command lines the run launched, in order
    exec_result,    \* execute_task local: what _execute_script returned
    procs,          \* live processes of the script's session
    desc_holds,     \* the descendant inherited the captured pipes
    child_rc,       \* exit status of the immediate child, once exited
    out_buf,        \* chunks the session wrote to the captured stdout
    err_buf,        \* chunks the session wrote to the captured stderr
    mkbi_token,     \* MKBI_TOKEN, "" when unset
    http_pc,        \* position of the HTTP request in flight
    http_endpoint,  \* the gated endpoint it addresses
    http_skill,     \* the skill the endpoint works on
    http_cred,      \* what HTTPBearer extracted from the request
    http_status,    \* status code of the response, 0 before it
    load_pc,        \* position of a load_skills call that runs step by step
    load_todo,      \* load_skills: stems of the files still to read
    load_local,     \* load_skills local "skills", the dict being built
    read_pc,        \* position of a reader inside _get_skill
    read_name,      \* _get_skill argument of the reader
    read_seen,      \* the value the reader's last read of self.skills gave
    read_result     \* how the reader's last _get_skill ended

vars == <<dir_exists, dir_files, skills, alive, exec_timeout, pc, op,
          user_request,          skill_name, output_only, skill_data, executor, extension,
          analysis_tool, result, outcome, ret_str, exc, calls, tmp_created,
          tmp_exists, tmp_suffix, analysis_cmds, analysis_rc, analysis_which, exec_cmds,
          exec_result, procs, desc_holds, child_rc, out_buf, err_buf,
          mkbi_token, http_pc, http_endpoint, http_skill, http_cred,
          http_status, load_pc, load_todo, load_local, read_pc, read_name,
          read_seen, read_result>>

run_vars == <<pc, op, user_request, skill_name, output_only, skill_data, executor,
              extension, analysis_tool, result, outcome, ret_str, exc, calls,
              tmp_created, tmp_exists, tmp_suffix, analysis_cmds, analysis_rc, analysis_which,
              exec_cmds, exec_result>>

proc_vars == <<procs, desc_holds, child_rc, out_buf, err_buf>>

svc_vars == <<dir_exists, dir_files, skills, alive, exec_timeout>>

http_vars == <<mkbi_token, http_pc, http_endpoint, http_skill, http_cred,
               http_status>>

load_vars == <<load_pc, load_todo, load_local, read_pc, read_name, read_seen,
               read_result>>

----------------------------------------------------------------------------
(* Python's None / optional values: <<>> is None, <<x>> is x.              *)
None == <<>>
Some(x) == <<x>>
\* dict.get(key, default) on an optional field
Get(o, d) == IF o = None THEN d ELSE o[1]

\* bound: chunks the script's session writes to its captured streams
MaxWrites == 2

Msg(r, c) == [role |-> r, content |-> c]

----------------------------------------------------------------------------
(* Skill files as json.load returns them: each top-level key may be absent *)
(* (None), and so may each key of "meta".                                  *)
EmptyMeta ==
    [executor |-> None, file_extension |-> None, static_analysis |-> None]

FileBashA ==
    [meta |-> Some([executor |-> Some("bash"), file_extension |-> Some(".sh"),
                    static_analysis |-> Some("shellcheck")]),
     interpreter |-> Some(<<Msg("system", "interp-A")>>),
     fabricator  |-> Some(<<Msg("system", "fab-A")>>)]

FileBashB ==
    [meta |-> Some([executor |-> Some("python3"), file_extension |-> Some(".py"),
                    static_analysis |-> None]),
     interpreter |-> Some(<<Msg("system", "interp-B")>>),
     fabricator  |-> Some(<<Msg("system", "fab-B")>>)]

FileOdd ==
    [meta |-> Some([executor |-> Some("zsh"), file_extension |-> Some(".zsh"),
                    static_analysis |-> Some("pylint")]),
     interpreter |-> Some(<<Msg("system", "interp-O")>>),
     fabricator  |-> Some(<<Msg("system", "fab-O")>>)]

\* a file holding {}: every field is defaulted by its readers
FileBare == [meta |-> None, interpreter |-> None, fabricator |-> None]

NoFiles == [n \in {} |-> FileBare]

\* an empty dict of skills
NoSkills == [n \in {} |-> [meta |-> EmptyMeta, interpreter |-> <<>>,
                           fabricator |-> <<>>]]

\* contents the skills directory can have
DirChoices ==
    { [n \in {"bash", "odd"} |-> IF n = "bash" THEN FileBashA ELSE FileOdd],
      [n \in {"bash", "odd"} |-> IF n = "bash" THEN FileBashB ELSE FileBare],
      [n \in {"odd"} |-> FileOdd],
      NoFiles }

SkillArgs == {None, Some("bash"), Some("odd"), Some("nope")}
Requests == {"list files"}
Timeouts == {5, 30}
InterpTexts == {"ls -la"}
FabTexts == {"echo hello"}
Chunks == {"hi", "bad"}
ExitCodes == {0, 1}
default_skill == "bash"

----------------------------------------------------------------------------
(* load_skills: the registry built from a scan of the directory.           *)
load_skills_exits(exists, files) == ~exists \/ DOMAIN files = {}

\* variant: a file without "meta" is skipped
load_skills_skip_bare(files) ==
    [n \in {k \in DOMAIN files : files[k].meta # None} |->
        [meta        |-> Get(files[n].meta, EmptyMeta),
         interpreter |-> Get(files[n].interpreter, <<>>),
         fabricator  |-> Get(files[n].fabricator, <<>>)]]

load_skills(files) ==
    [n \in DOMAIN files |->
        [meta        |-> Get(files[n].meta, EmptyMeta),
         interpreter |-> Get(files[n].interpreter, <<>>),
         fabricator  |-> Get(files[n].fabricator, <<>>)]]

\* _get_skill: the name is a key of the registry, else ValueError
get_skill_found(reg, name) == name \in DOMAIN reg
get_skill(reg, name) == reg[name]

\* skill or self.default_skill
SkillOrDefault(skill) ==
    IF skill = None \/ skill = Some("") THEN default_skill ELSE skill[1]

----------------------------------------------------------------------------
(* Command templates.                                                      *)
STATIC_ANALYSIS_CMDS ==
    [t \in {"shellcheck"} |-> <<"shellcheck", "{script}">>]

EXECUTOR_CMDS ==
    [e \in {"bash", "python3", "python", "node", "ruby", "perl"} |->
        <<e, "{script}">>]

\* [part.replace("{script}", script_path) for part in cmd_template]
FillTemplate(template, script_path) ==
    [i \in 1..Len(template) |->
        IF template[i] = "{script}" THEN script_path ELSE template[i]]

\* the name NamedTemporaryFile gives the file: a fresh stem plus the suffix
TmpPath(suffix) == "/tmp/tmpXXXX" \o suffix

RECURSIVE Concat(_)
Concat(chunks) ==
    IF chunks = <<>> THEN "" ELSE chunks[1] \o Concat(Tail(chunks))

\* text=True: the captured bytes are decoded strictly, an undecodable chunk
\* raises UnicodeDecodeError
DecodeStrictOk(chunks) == \A i \in 1..Len(chunks) : chunks[i] # "bad"
DecodeStrict(chunks) == Concat(chunks)
\* (e.stdout or b"").decode(errors="replace")
DecodeReplace(chunks) ==
    Concat([i \in 1..Len(chunks) |->
              IF chunks[i] = "bad" THEN "<U+FFFD>" ELSE chunks[i]])

----------------------------------------------------------------------------
(* _run_static_analysis: [passed, output, cmd: the command invoked or <<>>] *)
(* on_path is shutil.which(binary), rc and text the tool's exit status     *)
(* and its stripped output.                                                *)
\* variant: the tool's exit status is not looked at
run_static_analysis_rc_ignored(tool, script_path, on_path, rc, text) ==
    IF tool = None \/ tool = Some("")
       \/ tool[1] \notin DOMAIN STATIC_ANALYSIS_CMDS \/ ~on_path
    THEN [passed |-> TRUE, output |-> "", cmd |-> <<>>]
    ELSE [passed |-> TRUE, output |-> text,
          cmd |-> FillTemplate(STATIC_ANALYSIS_CMDS[tool[1]], script_path)]

\* variant: an unknown tool fails the stage
run_static_analysis_unknown_fails(tool, script_path, on_path, rc, text) ==
    IF tool = None \/ tool = Some("")
    THEN [passed |-> TRUE, output |-> "", cmd |-> <<>>]
    ELSE IF tool[1] \notin DOMAIN STATIC_ANALYSIS_CMDS
    THEN [passed |-> FALSE,
          output |-> "[mKBI] Unknown static analysis tool '" \o tool[1]
                      \o "' -- skipping.",
          cmd |-> <<>>]
    ELSE LET cmd == FillTemplate(STATIC_ANALYSIS_CMDS[tool[1]], script_path)
         IN IF ~on_path
            THEN [passed |-> TRUE,
                  output |-> "[mKBI] " \o cmd[1]
                              \o " not found on PATH -- skipping static analysis.",
                  cmd |-> <<>>]
            ELSE [passed |-> (rc = 0), output |-> text, cmd |-> cmd]

run_static_analysis(tool, script_path, on_path, rc, text) ==
    IF tool = None \/ tool = Some("")
    THEN [passed |-> TRUE, output |-> "", cmd |-> <<>>]
    ELSE IF tool[1] \notin DOMAIN STATIC_ANALYSIS_CMDS
    THEN [passed |-> TRUE,
          output |-> "[mKBI] Unknown static analysis tool '" \o tool[1]
                      \o "' -- skipping.",
          cmd |-> <<>>]
    ELSE LET cmd == FillTemplate(STATIC_ANALYSIS_CMDS[tool[1]], script_path)
         IN IF ~on_path
            THEN [passed |-> TRUE,
                  output |-> "[mKBI] " \o cmd[1]
                              \o " not found on PATH -- skipping static analysis.",
                  cmd |-> <<>>]
            ELSE [passed |-> (rc = 0), output |-> text, cmd |-> cmd]

----------------------------------------------------------------------------
(* _execute_script: its three outcomes.                                    *)
execute_script_known(exe) == exe \in DOMAIN EXECUTOR_CMDS

\* variant: the sentinel carries no diagnostic
execute_script_unknown_no_diag(exe) ==
    [stdout |-> "", stderr |-> "", returncode |-> Some(-1),
     timed_out |-> FALSE]

execute_script_unknown(exe) ==
    [stdout |-> "", stderr |-> "Unknown executor: " \o exe,
     returncode |-> Some(-1), timed_out |-> FALSE]

execute_script_completed(out, err, rc) ==
    [stdout |-> DecodeStrict(out), stderr |-> DecodeStrict(err),
     returncode |-> Some(rc), timed_out |-> FALSE]

\* variant: the killed child's signal status is reported as its exit code
execute_script_timeout_with_rc(out, err) ==
    [stdout |-> DecodeReplace(out), stderr |-> DecodeReplace(err),
     returncode |-> Some(-9), timed_out |-> TRUE]

execute_script_timeout(out, err) ==
    [stdout |-> DecodeReplace(out), stderr |-> DecodeReplace(err),
     returncode |-> None, timed_out |-> TRUE]

\* subprocess.run on TimeoutExpired: process.kill() signals the immediate
\* child only; start_new_session gives the script its own session, and no
\* signal is sent to that session's process group
killed_on_timeout(ps) == {"child"}

\* variant: after the kill the captured pipes are read to their end, which
\* a live descendant holding them keeps from coming
timeout_wait_blocked_on_pipes(ps, holds) == "desc" \in ps /\ holds = "yes"

\* subprocess.run on TimeoutExpired, after process.kill(): process.wait()
\* waits for the killed child alone and the pipes are closed unread, so
\* nothing a descendant does holds the return back
timeout_wait_blocked(ps, holds) == FALSE

----------------------------------------------------------------------------
(* execute_task: the result dict and its error texts.                      *)
NewResult(name) ==
    [skill |-> name, interpreter_response |-> "", fabricator_response |-> "",
     script |-> "", shellcheck_passed |-> FALSE, shellcheck_output |-> "",
     execution |-> None, error |-> None]

\* variant: the empty-script check is missing
EmptyScript_unchecked(fab_response) == FALSE

\* "not fab_response"
EmptyScript(fab_response) == fab_response = ""

EmptyScriptError == "Fabricator returned an empty script."

\* f"{analysis_tool} reported errors (em dash) execution aborted."
AnalysisError(tool) ==
    Get(tool, "None") \o " reported errors -- execution aborted."

\* f"Execution timed out after {self.exec_timeout}s."
TimeoutError(n) == "Execution timed out after " \o ToString(n) \o "s."

\* variant: the separator without its surrounding blanks
kcr_message_unspaced(request, interp_response) ==
    request \o "[KCR]" \o interp_response

\* f"{user_request} [KCR] {interp_response}"
kcr_message(request, interp_response) ==
    request \o " [KCR] " \o interp_response

\* variant: a timeout is not recorded as an error
ExecutionError_dropped(outcome_rec, n) == None

\* the error the execution stage records for an outcome (lines 371-375)
ExecutionError(outcome_rec, n) ==
    IF outcome_rec.timed_out THEN Some(TimeoutError(n)) ELSE None

\* the projection at the end of execute_task (lines 380-386)
ProjectStr(res) ==
    IF res.error # None /\ res.error # Some("")
    THEN res.error[1]
    ELSE IF res.execution # None THEN res.execution[1].stdout ELSE ""

----------------------------------------------------------------------------
(* The state after LLMService.__init__: the directory held at least one    *)
(* skill file (load_skills exits otherwise) and no call has started.       *)
InitService ==
    /\ dir_exists = TRUE
    /\ dir_files \in {f \in DirChoices : DOMAIN f # {}}
    /\ skills = load_skills(dir_files)
    /\ alive = TRUE
    /\ exec_timeout \in Timeouts
    /\ pc = "idle"
    /\ op = "none"
    /\ user_request = ""
    /\ skill_name = ""
    /\ output_only = FALSE
    /\ skill_data = None
    /\ executor = ""
    /\ extension = ""
    /\ analysis_tool = None
    /\ result = NewResult("")
    /\ outcome = "none"
    /\ ret_str = ""
    /\ exc = ""
    /\ calls = <<>>
    /\ tmp_created = FALSE
    /\ tmp_exists = FALSE
    /\ tmp_suffix = ""
    /\ analysis_cmds = <<>>
    /\ analysis_rc = None
    /\ analysis_which = "none"
    /\ exec_cmds = <<>>
    /\ exec_result = None
    /\ procs = {}
    /\ desc_holds = "none"
    /\ child_rc = None
    /\ out_buf = <<>>
    /\ err_buf = <<>>
    /\ http_pc = "none"
    /\ http_endpoint = ""
    /\ http_skill = ""
    /\ http_cred = None
    /\ http_status = 0
    /\ load_pc = "idle"
    /\ load_todo = <<>>
    /\ load_local = NoSkills
    /\ read_pc = "idle"
    /\ read_name = ""
    /\ read_seen = None
    /\ read_result = ""

\* the facade on its own: MKBI_TOKEN is read by the HTTP module only
Init == InitService /\ mkbi_token = ""

----------------------------------------------------------------------------
(* How a run ends.                                                         *)

\* "return result['error'] if output_only else result" (lines 341, 361)
ReturnEarly(res) ==
    /\ result' = res
    /\ outcome' = IF output_only THEN "str" ELSE "dict"
    /\ ret_str' = IF output_only THEN res.error[1] ELSE ""
    /\ exc' = ""
    /\ pc' = "done"

\* lines 380-386
ReturnFinal(res) ==
    /\ result' = res
    /\ outcome' = IF output_only THEN "str" ELSE "dict"
    /\ ret_str' = IF output_only THEN ProjectStr(res) ELSE ""
    /\ exc' = ""
    /\ pc' = "done"

\* an exception leaves execute_task
Raise(e) ==
    /\ outcome' = "raise"
    /\ exc' = e
    /\ ret_str' = ""
    /\ pc' = "done"

----------------------------------------------------------------------------
(* reload_skills (lines 243-245).  The scan sees the directory as its      *)
(* owner left it: any of the contents, or no directory.  load_skills exits *)
(* the process on a missing or empty directory, before self.skills is      *)
(* rebound.                                                                *)
reload_skills_call ==
    /\ \E e \in BOOLEAN, f \in DirChoices :
          /\ ~e => f = NoFiles
          /\ dir_exists' = e
          /\ dir_files' = f
          /\ IF load_skills_exits(e, f)
             THEN alive' = FALSE /\ skills' = skills
             ELSE alive' = TRUE /\ skills' = load_skills(f)
    /\ UNCHANGED exec_timeout

reload_skills ==
    /\ alive
    /\ reload_skills_call
    /\ UNCHANGED run_vars
    /\ UNCHANGED proc_vars
    /\ UNCHANGED http_vars
    /\ UNCHANGED load_vars

----------------------------------------------------------------------------
(* execute_task, lines 303-319: resolve the skill, read its meta, build    *)
(* the result dict.                                                        *)
\* variant: the skill is not resolved before the chain starts
execute_task_call_unresolved(req, skill, oo) ==
        /\ op' = "execute"
        /\ user_request' = req
        /\ output_only' = oo
        /\ skill_name' = SkillOrDefault(skill)
        /\ skill_data' = None
        /\ executor' = "bash"
        /\ extension' = ".sh"
        /\ analysis_tool' = None
        /\ result' = NewResult(SkillOrDefault(skill))
        /\ pc' = "interpret"
        /\ UNCHANGED <<outcome, ret_str, exc, calls, tmp_created, tmp_exists,
                       tmp_suffix, analysis_cmds, analysis_rc, analysis_which,
                       exec_cmds, exec_result>>
        /\ UNCHANGED svc_vars
        /\ UNCHANGED proc_vars

execute_task_call(req, skill, oo) ==
        LET name == SkillOrDefault(skill) IN
        /\ op' = "execute"
        /\ user_request' = req
        /\ output_only' = oo
        /\ skill_name' = name
        /\ IF get_skill_found(skills, name)
           THEN LET data == get_skill(skills, name) IN
                /\ skill_data' = Some(data)
                /\ executor' = Get(data.meta.executor, "bash")
                /\ extension' = Get(data.meta.file_extension, ".sh")
                /\ analysis_tool' = data.meta.static_analysis
                /\ result' = NewResult(name)
                /\ pc' = "interpret"
                /\ UNCHANGED <<outcome, ret_str, exc>>
           ELSE /\ Raise("ValueError")
                /\ UNCHANGED <<skill_data, executor, extension, analysis_tool,
                               result>>
        /\ UNCHANGED <<calls, tmp_created, tmp_exists, tmp_suffix,
                       analysis_cmds, analysis_rc, analysis_which, exec_cmds,
                       exec_result>>
        /\ UNCHANGED svc_vars
        /\ UNCHANGED proc_vars

\* execute_task called on the facade
execute_task_begin ==
    /\ alive
    /\ pc = "idle"
    /\ \E req \in Requests, skill \in SkillArgs, oo \in BOOLEAN :
          execute_task_call(req, skill, oo)
    /\ UNCHANGED http_vars
    /\ UNCHANGED load_vars

\* create_chat (lines 272-275) looks the skill up again in self.skills
create_chat_history(reg, name) == get_skill(reg, name).interpreter

\* fabricate (lines 277-280) looks the skill up again in self.skills
fabricate_history(reg, name) == get_skill(reg, name).fabricator

\* _call (lines 256-270): "text" is the completion's content, "nochoice" a
\* response without choices (IndexError, returns ""), "fail" a transport
\* failure or a malformed response (an exception or sys.exit)
BackendReplies(texts) ==
    {[kind |-> "text", text |-> t] : t \in texts \cup {""}}
      \cup {[kind |-> "nochoice", text |-> ""], [kind |-> "fail", text |-> ""]}

call_text(reply) == IF reply.kind = "text" THEN reply.text ELSE ""

\* variant: create_chat goes on to the Fabricator with the response
create_chat_call_chained(req, skill) ==
        LET name == SkillOrDefault(skill) IN
        /\ op' = "interpret"
        /\ user_request' = req
        /\ skill_name' = name
        /\ IF ~get_skill_found(skills, name)
           THEN /\ Raise("ValueError")
                /\ UNCHANGED calls
           ELSE \E reply \in BackendReplies(InterpTexts) :
                LET first == [stage |-> "interpreter",
                              messages |-> create_chat_history(skills, name)
                                             \o <<Msg("user", req)>>]
                    second == [stage |-> "fabricator",
                               messages |-> fabricate_history(skills, name)
                                   \o <<Msg("user", kcr_message(req,
                                                      call_text(reply)))>>]
                IN  IF reply.kind = "fail"
                    THEN /\ calls' = Append(calls, first)
                         /\ Raise("GatewayError")
                    ELSE /\ calls' = Append(Append(calls, first), second)
                         /\ outcome' = "str"
                         /\ ret_str' = call_text(reply)
                         /\ exc' = ""
                         /\ pc' = "done"
        /\ UNCHANGED <<output_only, skill_data, executor, extension,
                       analysis_tool, result, tmp_created, tmp_exists,
                       tmp_suffix, analysis_cmds, analysis_rc, analysis_which,
                       exec_cmds, exec_result>>
        /\ UNCHANGED svc_vars
        /\ UNCHANGED proc_vars

\* create_chat called from outside the chain (lines 272-275): the messages
\* are one user message, as _do_interpret passes them
create_chat_call(req, skill) ==
        LET name == SkillOrDefault(skill) IN
        /\ op' = "interpret"
        /\ user_request' = req
        /\ skill_name' = name
        /\ IF ~get_skill_found(skills, name)
           THEN /\ Raise("ValueError")
                /\ UNCHANGED calls
           ELSE \E reply \in BackendReplies(InterpTexts) :
                /\ calls' = Append(calls,
                      [stage |-> "interpreter",
                       messages |-> create_chat_history(skills, name)
                                      \o <<Msg("user", req)>>])
                /\ IF reply.kind = "fail"
                   THEN Raise("GatewayError")
                   ELSE /\ outcome' = "str"
                        /\ ret_str' = call_text(reply)
                        /\ exc' = ""
                        /\ pc' = "done"
        /\ UNCHANGED <<output_only, skill_data, executor, extension,
                       analysis_tool, result, tmp_created, tmp_exists,
                       tmp_suffix, analysis_cmds, analysis_rc, analysis_which,
                       exec_cmds, exec_result>>
        /\ UNCHANGED svc_vars
        /\ UNCHANGED proc_vars

\* create_chat called on the facade
create_chat_begin ==
    /\ alive
    /\ pc = "idle"
    /\ \E req \in Requests, skill \in SkillArgs : create_chat_call(req, skill)
    /\ UNCHANGED http_vars
    /\ UNCHANGED load_vars

\* Stage 1 (lines 321-328)
interpreter_stage ==
    /\ alive
    /\ pc = "interpret"
    /\ IF ~get_skill_found(skills, skill_name)
       THEN /\ Raise("ValueError")
            /\ UNCHANGED <<result, calls>>
       ELSE \E reply \in BackendReplies(InterpTexts) :
            /\ calls' = Append(calls,
                  [stage |-> "interpreter",
                   messages |-> create_chat_history(skills, skill_name)
                                  \o <<Msg("user", user_request)>>])
            /\ IF reply.kind = "fail"
               THEN Raise("GatewayError") /\ UNCHANGED result
               ELSE /\ result' = [result EXCEPT
                          !.interpreter_response = call_text(reply)]
                    /\ pc' = "fabricate"
                    /\ UNCHANGED <<outcome, ret_str, exc>>
    /\ UNCHANGED <<op, user_request, skill_name, output_only, skill_data, executor,
                   extension, analysis_tool, tmp_created, tmp_exists,
                   tmp_suffix, analysis_cmds, analysis_rc, analysis_which, exec_cmds,
                   exec_result>>
    /\ UNCHANGED svc_vars
    /\ UNCHANGED http_vars
    /\ UNCHANGED load_vars
    /\ UNCHANGED proc_vars

\* Stage 2 (lines 330-341)
fabricator_stage ==
    /\ alive
    /\ pc = "fabricate"
    /\ IF ~get_skill_found(skills, skill_name)
       THEN /\ Raise("ValueError")
            /\ UNCHANGED <<result, calls>>
       ELSE \E reply \in BackendReplies(FabTexts) :
            /\ calls' = Append(calls,
                  [stage |-> "fabricator",
                   messages |-> fabricate_history(skills, skill_name)
                       \o <<Msg("user", kcr_message(user_request,
                                           result.interpreter_response))>>])
            /\ IF reply.kind = "fail"
               THEN Raise("GatewayError") /\ UNCHANGED result
               ELSE LET fab == call_text(reply)
                        res == [result EXCEPT !.fabricator_response = fab,
                                              !.script = fab]
                    IN IF EmptyScript(fab)
                       THEN ReturnEarly([res EXCEPT
                                           !.error = Some(EmptyScriptError)])
                       ELSE /\ result' = res
                            /\ pc' = "tempfile"
                            /\ UNCHANGED <<outcome, ret_str, exc>>
    /\ UNCHANGED <<op, user_request, skill_name, output_only, skill_data, executor,
                   extension, analysis_tool, tmp_created, tmp_exists,
                   tmp_suffix, analysis_cmds, analysis_rc, analysis_which, exec_cmds,
                   exec_result>>
    /\ UNCHANGED svc_vars
    /\ UNCHANGED http_vars
    /\ UNCHANGED load_vars
    /\ UNCHANGED proc_vars

\* lines 344-351: NamedTemporaryFile(delete=False) creates the file, then the
\* script is written to it; the write or the closing flush can fail (text
\* that does not encode as UTF-8, a full disk), and nothing removes the file
\* then, the try statement starting at line 353
write_tempfile ==
    /\ alive
    /\ pc = "tempfile"
    /\ tmp_created' = TRUE
    /\ tmp_exists' = TRUE
    /\ tmp_suffix' = extension
    /\ \E written \in BOOLEAN :
          IF written
          THEN pc' = "analyze" /\ UNCHANGED <<outcome, ret_str, exc>>
          ELSE Raise("WriteError")
    /\ UNCHANGED <<op, user_request, skill_name, output_only, skill_data, executor,
                   extension, analysis_tool, result, calls, analysis_cmds,
                   analysis_rc, analysis_which, exec_cmds, exec_result>>
    /\ UNCHANGED svc_vars
    /\ UNCHANGED http_vars
    /\ UNCHANGED load_vars
    /\ UNCHANGED proc_vars

\* what the analysis tool prints for an exit status
ToolOutput(rc) == IF rc = 0 THEN "" ELSE "SC1073: couldn't parse this"

\* Stage 3 (lines 353-364, and the finally clause at 377-378 on the paths
\* that leave here)
static_analysis_stage ==
    /\ alive
    /\ pc = "analyze"
    /\ \E on_path \in BOOLEAN, rc \in ExitCodes, raises \in BOOLEAN :
        LET r == run_static_analysis(analysis_tool, TmpPath(tmp_suffix),
                                     on_path, rc, ToolOutput(rc))
            res == [result EXCEPT !.shellcheck_passed = r.passed,
                                  !.shellcheck_output = r.output]
        IN  /\ analysis_cmds' = IF r.cmd = <<>> THEN analysis_cmds
                                ELSE Append(analysis_cmds, r.cmd)
            /\ analysis_rc' = IF r.cmd = <<>> \/ raises THEN None
                              ELSE Some(rc)
            /\ analysis_which' =
                  IF analysis_tool = None \/ analysis_tool = Some("")
                     \/ analysis_tool[1] \notin DOMAIN STATIC_ANALYSIS_CMDS
                  THEN "none"
                  ELSE IF on_path THEN "found" ELSE "missing"
            /\ IF r.cmd # <<>> /\ raises
               THEN /\ Raise("OSError")
                    /\ tmp_exists' = FALSE
                    /\ UNCHANGED result
               ELSE IF ~r.passed
               THEN /\ ReturnEarly([res EXCEPT
                          !.error = Some(AnalysisError(analysis_tool))])
                    /\ tmp_exists' = FALSE
               ELSE /\ result' = res
                    /\ pc' = "execute"
                    /\ UNCHANGED <<outcome, ret_str, exc, tmp_exists>>
    /\ UNCHANGED <<op, user_request, skill_name, output_only, skill_data, executor,
                   extension, analysis_tool, calls, tmp_created, tmp_suffix,
                   exec_cmds, exec_result>>
    /\ UNCHANGED svc_vars
    /\ UNCHANGED http_vars
    /\ UNCHANGED load_vars
    /\ UNCHANGED proc_vars

\* Stage 4, entry of _execute_script (lines 155-174): the sentinel for an
\* unknown executor, FileNotFoundError when the interpreter is not
\* installed, else the child starts as the leader of a new session
execute_stage_launch ==
    /\ alive
    /\ pc = "execute"
    /\ IF ~execute_script_known(executor)
       THEN /\ exec_result' = Some(execute_script_unknown(executor))
            /\ pc' = "executed"
            /\ UNCHANGED <<exec_cmds, outcome, ret_str, exc, tmp_exists>>
            /\ UNCHANGED proc_vars
       ELSE \E installed \in BOOLEAN :
            IF ~installed
            THEN /\ Raise("FileNotFoundError")
                 /\ tmp_exists' = FALSE
                 /\ UNCHANGED <<exec_cmds, exec_result>>
                 /\ UNCHANGED proc_vars
            ELSE /\ exec_cmds' = Append(exec_cmds,
                        FillTemplate(EXECUTOR_CMDS[executor],
                                     TmpPath(tmp_suffix)))
                 /\ procs' = {"child"}
                 /\ desc_holds' = "none"
                 /\ child_rc' = None
                 /\ out_buf' = <<>>
                 /\ err_buf' = <<>>
                 /\ pc' = "running"
                 /\ UNCHANGED <<exec_result, outcome, ret_str, exc,
                                tmp_exists>>
    /\ UNCHANGED <<op, user_request, skill_name, output_only, skill_data, executor,
                   extension, analysis_tool, result, calls, tmp_created,
                   tmp_suffix, analysis_cmds, analysis_rc, analysis_which>>
    /\ UNCHANGED svc_vars
    /\ UNCHANGED http_vars
    /\ UNCHANGED load_vars

\* subprocess.run returns (lines 175-180): the child has exited and every
\* holder of the captured pipes has closed them
execute_stage_complete ==
    /\ alive
    /\ pc = "running"
    /\ child_rc # None
    /\ ~("desc" \in procs /\ desc_holds = "yes")
    /\ IF DecodeStrictOk(out_buf) /\ DecodeStrictOk(err_buf)
       THEN /\ exec_result' = Some(
                 execute_script_completed(out_buf, err_buf, child_rc[1]))
            /\ pc' = "executed"
            /\ UNCHANGED <<outcome, ret_str, exc, tmp_exists>>
       ELSE /\ Raise("UnicodeDecodeError")
            /\ tmp_exists' = FALSE
            /\ UNCHANGED exec_result
    /\ UNCHANGED <<op, user_request, skill_name, output_only, skill_data, executor,
                   extension, analysis_tool, result, calls, tmp_created,
                   tmp_suffix, analysis_cmds, analysis_rc, analysis_which, exec_cmds>>
    /\ UNCHANGED svc_vars
    /\ UNCHANGED http_vars
    /\ UNCHANGED load_vars
    /\ UNCHANGED proc_vars

\* subprocess.run raises TimeoutExpired (lines 181-187): the wait for the
\* child and its pipes ran out of time
execute_stage_timeout ==
    /\ alive
    /\ pc = "running"
    /\ ~timeout_wait_blocked(procs, desc_holds)
    /\ procs' = procs \ killed_on_timeout(procs)
    /\ child_rc' = IF child_rc = None THEN Some(-9) ELSE child_rc
    /\ exec_result' = Some(execute_script_timeout(out_buf, err_buf))
    /\ pc' = "executed"
    /\ UNCHANGED <<desc_holds, out_buf, err_buf>>
    /\ UNCHANGED <<op, user_request, skill_name, output_only, skill_data, executor,
                   extension, analysis_tool, result, outcome, ret_str, exc,
                   calls, tmp_created, tmp_exists, tmp_suffix, analysis_cmds,
                   analysis_rc, analysis_which, exec_cmds>>
    /\ UNCHANGED svc_vars
    /\ UNCHANGED http_vars
    /\ UNCHANGED load_vars

\* lines 369-386 with the finally clause: record the outcome, set the error
\* on a timeout, delete the file, project the result
execute_task_finish ==
    /\ alive
    /\ pc = "executed"
    /\ ReturnFinal([result EXCEPT
            !.execution = exec_result,
            !.error = IF ExecutionError(exec_result[1], exec_timeout) = None
                      THEN result.error
                      ELSE ExecutionError(exec_result[1], exec_timeout)])
    /\ tmp_exists' = FALSE
    /\ UNCHANGED <<op, user_request, skill_name, output_only, skill_data, executor,
                   extension, analysis_tool, calls, tmp_created, tmp_suffix,
                   analysis_cmds, analysis_rc, analysis_which, exec_cmds, exec_result>>
    /\ UNCHANGED svc_vars
    /\ UNCHANGED http_vars
    /\ UNCHANGED load_vars
    /\ UNCHANGED proc_vars

----------------------------------------------------------------------------
(* The script's processes.                                                 *)
PipeHolders == procs \cap ({"child"} \cup
                  (IF desc_holds = "yes" THEN {"desc"} ELSE {}))

ScriptWrites ==
    /\ pc = "running"
    /\ PipeHolders # {}
    /\ Len(out_buf) + Len(err_buf) < MaxWrites
    /\ \E c \in Chunks, to_err \in BOOLEAN :
          IF to_err
          THEN err_buf' = Append(err_buf, c) /\ out_buf' = out_buf
          ELSE out_buf' = Append(out_buf, c) /\ err_buf' = err_buf
    /\ UNCHANGED <<procs, desc_holds, child_rc>>
    /\ UNCHANGED run_vars
    /\ UNCHANGED svc_vars
    /\ UNCHANGED http_vars
    /\ UNCHANGED load_vars

ScriptSpawns ==
    /\ pc = "running"
    /\ "child" \in procs
    /\ desc_holds = "none"
    /\ procs' = procs \cup {"desc"}
    /\ \E h \in {"yes", "no"} : desc_holds' = h
    /\ UNCHANGED <<child_rc, out_buf, err_buf>>
    /\ UNCHANGED run_vars
    /\ UNCHANGED svc_vars
    /\ UNCHANGED http_vars
    /\ UNCHANGED load_vars

ScriptExits ==
    /\ pc = "running"
    /\ "child" \in procs
    /\ procs' = procs \ {"child"}
    /\ \E rc \in ExitCodes : child_rc' = Some(rc)
    /\ UNCHANGED <<desc_holds, out_buf, err_buf>>
    /\ UNCHANGED run_vars
    /\ UNCHANGED svc_vars
    /\ UNCHANGED http_vars
    /\ UNCHANGED load_vars

DescendantExits ==
    /\ "desc" \in procs
    /\ procs' = procs \ {"desc"}
    /\ UNCHANGED <<desc_holds, child_rc, out_buf, err_buf>>
    /\ UNCHANGED run_vars
    /\ UNCHANGED svc_vars
    /\ UNCHANGED http_vars
    /\ UNCHANGED load_vars

----------------------------------------------------------------------------
(* The service takes the next request: the finished run's locals are gone  *)
(* and its processes are no longer followed.                               *)
ClearCall ==
    /\ pc' = "idle"
    /\ op' = "none"
    /\ user_request' = ""
    /\ skill_name' = ""
    /\ output_only' = FALSE
    /\ skill_data' = None
    /\ executor' = ""
    /\ extension' = ""
    /\ analysis_tool' = None
    /\ result' = NewResult("")
    /\ outcome' = "none"
    /\ ret_str' = ""
    /\ exc' = ""
    /\ calls' = <<>>
    /\ tmp_created' = FALSE
    /\ tmp_exists' = FALSE
    /\ tmp_suffix' = ""
    /\ analysis_cmds' = <<>>
    /\ analysis_rc' = None
    /\ analysis_which' = "none"
    /\ exec_cmds' = <<>>
    /\ exec_result' = None
    /\ procs' = {}
    /\ desc_holds' = "none"
    /\ child_rc' = None
    /\ out_buf' = <<>>
    /\ err_buf' = <<>>

next_request ==
    /\ alive
    /\ pc = "done"
    /\ ClearCall
    /\ UNCHANGED svc_vars
    /\ UNCHANGED http_vars
    /\ UNCHANGED load_vars

Next ==
    \/ reload_skills
    \/ execute_task_begin
    \/ create_chat_begin
    \/ interpreter_stage
    \/ fabricator_stage
    \/ write_tempfile
    \/ static_analysis_stage
    \/ execute_stage_launch
    \/ execute_stage_complete
    \/ execute_stage_timeout
    \/ execute_task_finish
    \/ ScriptWrites
    \/ ScriptSpawns
    \/ ScriptExits
    \/ DescendantExits
    \/ next_request

Spec == Init /\ [][Next]_vars

----------------------------------------------------------------------------
(* The HTTP endpoints (src/mKBI_api.py).  One request to a gated endpoint  *)
(* is in flight at a time; reload_skills, as another client's authorised   *)
(* request runs it, interleaves with it.                                   *)

\* list_skills (lines 233-241), the order of the list left out
list_skills(reg) ==
    {[name     |-> n,
      executor |-> Get(reg[n].meta.executor, "unknown"),
      analysis |-> reg[n].meta.static_analysis] : n \in DOMAIN reg}

Tokens == {"", "s3cret"}

\* HTTPBearer(auto_error=False): None without an Authorization header or
\* with another scheme, else the credential after "Bearer"
Credentials == {None, Some("s3cret"), Some("wrong")}

GatedEndpoints ==
    {"reload", "skill_execute", "skill_interpret", "execute", "interpret"}

ExecuteEndpoints == {"skill_execute", "execute"}

\* the {skill} path parameter
PathSkills == {"bash", "odd", "nope"}

HTTP_401_UNAUTHORIZED == 401
HTTP_404_NOT_FOUND == 404
HTTP_200_OK == 200
HTTP_500_INTERNAL_SERVER_ERROR == 500

\* variant: a request without credentials is let through
check_auth_missing_ok(token, cred) ==
    token = "" \/ cred = None \/ cred[1] = token

\* check_auth (lines 89-99): TRUE when it returns, FALSE when it raises 401
check_auth(token, cred) ==
    token = "" \/ (cred # None /\ cred[1] = token)

\* a request arrives at a gated endpoint and its dependencies are resolved
http_request ==
    /\ alive
    /\ http_pc = "none"
    /\ pc = "idle"
    /\ \E ep \in GatedEndpoints, cred \in Credentials, sk \in PathSkills :
          /\ http_endpoint' = ep
          /\ http_cred' = cred
          /\ http_skill' =
                IF ep \in {"skill_execute", "skill_interpret"} THEN sk
                ELSE IF ep = "reload" THEN "" ELSE default_skill
          /\ IF check_auth(mkbi_token, cred)
             THEN http_pc' = "handler" /\ http_status' = 0
             ELSE /\ http_pc' = "responded"
                  /\ http_status' = HTTP_401_UNAUTHORIZED
    /\ UNCHANGED mkbi_token
    /\ UNCHANGED svc_vars
    /\ UNCHANGED run_vars
    /\ UNCHANGED proc_vars
    /\ UNCHANGED load_vars

\* POST /skills/reload (lines 191-197)
http_reload ==
    /\ alive
    /\ http_pc = "handler"
    /\ http_endpoint = "reload"
    /\ reload_skills_call
    /\ http_pc' = "responded"
    /\ http_status' = IF alive' THEN HTTP_200_OK ELSE 0
    /\ UNCHANGED <<mkbi_token, http_endpoint, http_skill, http_cred>>
    /\ UNCHANGED run_vars
    /\ UNCHANGED proc_vars
    /\ UNCHANGED load_vars

\* _do_execute line 208, _do_interpret line 225: the existence check
http_check_skill ==
    /\ alive
    /\ http_pc = "handler"
    /\ http_endpoint # "reload"
    /\ IF http_skill \notin {s.name : s \in list_skills(skills)}
       THEN http_pc' = "responded" /\ http_status' = HTTP_404_NOT_FOUND
       ELSE http_pc' = "checked" /\ http_status' = 0
    /\ UNCHANGED <<mkbi_token, http_endpoint, http_skill, http_cred>>
    /\ UNCHANGED svc_vars
    /\ UNCHANGED run_vars
    /\ UNCHANGED proc_vars
    /\ UNCHANGED load_vars

\* _do_execute line 211, _do_interpret line 228: the call into the facade
http_call ==
    /\ alive
    /\ http_pc = "checked"
    /\ pc = "idle"
    /\ IF http_endpoint \in ExecuteEndpoints
       THEN \E req \in Requests, oo \in BOOLEAN :
               execute_task_call(req, Some(http_skill), oo)
       ELSE \E req \in Requests : create_chat_call(req, Some(http_skill))
    /\ http_pc' = "facade"
    /\ UNCHANGED <<mkbi_token, http_endpoint, http_skill, http_cred,
                   http_status>>
    /\ UNCHANGED load_vars

\* the facade call has ended: the handler builds the response (lines
\* 212-218, 229-230); an exception that left the facade is not caught and
\* the server answers 500
http_respond ==
    /\ alive
    /\ http_pc = "facade"
    /\ pc = "done"
    /\ http_pc' = "responded"
    /\ http_status' = IF outcome = "raise"
                      THEN HTTP_500_INTERNAL_SERVER_ERROR ELSE HTTP_200_OK
    /\ UNCHANGED <<mkbi_token, http_endpoint, http_skill, http_cred>>
    /\ UNCHANGED svc_vars
    /\ UNCHANGED run_vars
    /\ UNCHANGED proc_vars
    /\ UNCHANGED load_vars

\* the response is sent and the next request can arrive
http_close ==
    /\ alive
    /\ http_pc = "responded"
    /\ http_pc' = "none"
    /\ http_endpoint' = ""
    /\ http_skill' = ""
    /\ http_cred' = None
    /\ http_status' = 0
    /\ ClearCall
    /\ UNCHANGED mkbi_token
    /\ UNCHANGED svc_vars
    /\ UNCHANGED load_vars

InitHttp ==
    /\ InitService
    /\ mkbi_token \in Tokens

\* the script's output and descendants are followed in Spec; here the
\* script exits or is timed out
NextHttp ==
    \/ reload_skills
    \/ http_request
    \/ http_reload
    \/ http_check_skill
    \/ http_call
    \/ interpreter_stage
    \/ fabricator_stage
    \/ write_tempfile
    \/ static_analysis_stage
    \/ execute_stage_launch
    \/ execute_stage_complete
    \/ execute_stage_timeout
    \/ execute_task_finish
    \/ ScriptExits
    \/ http_respond
    \/ http_close

SpecHttp == InitHttp /\ [][NextHttp]_vars

----------------------------------------------------------------------------
(* One run at a time with the script's processes, the registry left alone. *)
(* Every step of the run is code of the calling thread and is taken once   *)
(* it can be: the model calls and the analysis tool return, and the        *)
(* timeout of subprocess.run expires while the wait lasts.  Nothing is     *)
(* assumed of the script's processes.                                      *)
NextLive ==
    \/ execute_task_begin
    \/ interpreter_stage
    \/ fabricator_stage
    \/ write_tempfile
    \/ static_analysis_stage
    \/ execute_stage_launch
    \/ execute_stage_complete
    \/ execute_stage_timeout
    \/ execute_task_finish
    \/ ScriptWrites
    \/ ScriptSpawns
    \/ ScriptExits
    \/ DescendantExits
    \/ next_request

FairLive ==
    /\ WF_vars(interpreter_stage)
    /\ WF_vars(fabricator_stage)
    /\ WF_vars(write_tempfile)
    /\ WF_vars(static_analysis_stage)
    /\ WF_vars(execute_stage_launch)
    /\ WF_vars(execute_stage_timeout)
    /\ WF_vars(execute_task_finish)

SpecLive == Init /\ [][NextLive]_vars /\ FairLive

----------------------------------------------------------------------------
(* load_skills step by step (lines 82-109), as reload_skills runs it, and  *)
(* readers of self.skills beside it.                                       *)

\* sorted(skills_dir.glob("*.json")): the stems in sorted order
StemOrder == <<"bash", "odd">>
SortedStems(files) == SelectSeq(StemOrder, LAMBDA n : n \in DOMAIN files)

\* the entry built for one file (lines 99-103)
skill_entry(data) ==
    [meta        |-> Get(data.meta, EmptyMeta),
     interpreter |-> Get(data.interpreter, <<>>),
     fabricator  |-> Get(data.fabricator, <<>>)]

\* variant: the registry is rebuilt in place, in self.skills itself
active_during_load_in_place(current, local) == local

\* self.skills while load_skills runs: load_skills fills a dict of its own
\* (line 93) and never touches the active one
active_during_load(current, local) == current

\* variant: an empty result is returned like any other
no_skills_loaded_unchecked(local) == FALSE

\* "if not skills" (line 105)
no_skills_loaded(local) == DOMAIN local = {}

\* lines 87-93: the directory is looked at and the file list made
load_skills_scan ==
    /\ alive
    /\ load_pc = "idle"
    /\ \E e \in BOOLEAN, f \in DirChoices :
          /\ ~e => f = NoFiles
          /\ dir_exists' = e
          /\ dir_files' = f
          /\ IF ~e
             THEN /\ alive' = FALSE
                  /\ UNCHANGED <<skills, load_pc, load_todo, load_local>>
             ELSE /\ alive' = TRUE
                  /\ load_pc' = "loop"
                  /\ load_todo' = SortedStems(f)
                  /\ load_local' = NoSkills
                  /\ skills' = active_during_load(skills, NoSkills)
    /\ UNCHANGED <<exec_timeout, read_pc, read_name, read_seen, read_result>>
    /\ UNCHANGED run_vars
    /\ UNCHANGED proc_vars
    /\ UNCHANGED http_vars

\* lines 94-104: one file is read and its entry added to the local dict
load_skills_file ==
    /\ alive
    /\ load_pc = "loop"
    /\ load_todo # <<>>
    /\ LET name == Head(load_todo)
           built == [n \in DOMAIN load_local \cup {name} |->
                       IF n = name THEN skill_entry(dir_files[name])
                       ELSE load_local[n]]
       IN  /\ load_local' = built
           /\ load_todo' = Tail(load_todo)
           /\ skills' = active_during_load(skills, built)
    /\ UNCHANGED <<dir_exists, dir_files, alive, exec_timeout, load_pc,
                   read_pc, read_name, read_seen, read_result>>
    /\ UNCHANGED run_vars
    /\ UNCHANGED proc_vars
    /\ UNCHANGED http_vars

\* lines 105-109, then reload_skills line 244: exit on an empty dict, else
\* self.skills is rebound to the dict load_skills returned
load_skills_rebind ==
    /\ alive
    /\ load_pc = "loop"
    /\ load_todo = <<>>
    /\ IF no_skills_loaded(load_local)
       THEN alive' = FALSE /\ skills' = skills
       ELSE alive' = TRUE /\ skills' = load_local
    /\ load_pc' = "idle"
    /\ load_local' = NoSkills
    /\ UNCHANGED <<dir_exists, dir_files, exec_timeout, load_todo, read_pc,
                   read_name, read_seen, read_result>>
    /\ UNCHANGED run_vars
    /\ UNCHANGED proc_vars
    /\ UNCHANGED http_vars

\* list_skills (lines 233-241): one read of self.skills
list_skills_read ==
    /\ alive
    /\ read_pc = "idle"
    /\ read_seen' = Some(skills)
    /\ read_result' = "listed"
    /\ read_name' = ""
    /\ UNCHANGED read_pc
    /\ UNCHANGED <<load_pc, load_todo, load_local>>
    /\ UNCHANGED svc_vars
    /\ UNCHANGED run_vars
    /\ UNCHANGED proc_vars
    /\ UNCHANGED http_vars

\* _get_skill line 248: the first read of self.skills, the membership test
get_skill_check ==
    /\ alive
    /\ read_pc = "idle"
    /\ \E name \in PathSkills :
          /\ read_name' = name
          /\ read_seen' = Some(skills)
          /\ IF get_skill_found(skills, name)
             THEN read_pc' = "checked" /\ read_result' = ""
             ELSE read_pc' = "idle" /\ read_result' = "ValueError"
    /\ UNCHANGED <<load_pc, load_todo, load_local>>
    /\ UNCHANGED svc_vars
    /\ UNCHANGED run_vars
    /\ UNCHANGED proc_vars
    /\ UNCHANGED http_vars

\* _get_skill line 250: the second read of self.skills, the subscript
get_skill_index ==
    /\ alive
    /\ read_pc = "checked"
    /\ read_seen' = Some(skills)
    /\ read_result' = IF read_name \in DOMAIN skills THEN "found"
                      ELSE "KeyError"
    /\ read_pc' = "idle"
    /\ UNCHANGED read_name
    /\ UNCHANGED <<load_pc, load_todo, load_local>>
    /\ UNCHANGED svc_vars
    /\ UNCHANGED run_vars
    /\ UNCHANGED proc_vars
    /\ UNCHANGED http_vars

NextLoad ==
    \/ load_skills_scan
    \/ load_skills_file
    \/ load_skills_rebind
    \/ list_skills_read
    \/ get_skill_check
    \/ get_skill_index

SpecLoad == Init /\ [][NextLoad]_vars

----------------------------------------------------------------------------
(* Properties.                                                             *)

Returned == pc = "done" /\ outcome \in {"dict", "str"}

\* the messages of the run's model call for a stage, without the trailing
\* user message: the history the call was made with
HistoryUsed(c) == SubSeq(c.messages, 1, Len(c.messages) - 1)

\* the script was launched and ran to its own exit
RanToCompletion ==
    /\ exec_cmds # <<>>
    /\ result.execution # None
    /\ ~result.execution[1].timed_out

\* C1: once a run has resolved its skill, every later use of the skill in
\* that run (executor, file extension, analysis tool, the history of the
\* Interpreter call and of the Fabricator call) comes from the
\* SkillDefinition it resolved, whatever reload_skills does meanwhile, and
\* the run does not fail on a skill that a reload removed.
C1_RunUsesResolvedSkill ==
    skill_data # None =>
        /\ executor = Get(skill_data[1].meta.executor, "bash")
        /\ extension = Get(skill_data[1].meta.file_extension, ".sh")
        /\ analysis_tool = skill_data[1].meta.static_analysis
        /\ \A i \in 1..Len(calls) :
              /\ calls[i].stage = "interpreter" =>
                    HistoryUsed(calls[i]) = skill_data[1].interpreter
              /\ calls[i].stage = "fabricator" =>
                    HistoryUsed(calls[i]) = skill_data[1].fabricator
        /\ ~(outcome = "raise" /\ exc = "ValueError")

\* C2: in every returned result, error set implies execution is null or
\* timed out, and error is set exactly when the script did not run to
\* completion (exactly one of: successful completion, error set).
C2_ErrorIffAborted ==
    Returned =>
        /\ result.error # None =>
              (result.execution = None \/ result.execution[1].timed_out)
        /\ (result.error # None) <=> ~RanToCompletion

\* C3: a run that reaches the execution stage with an executor that is no
\* known command template returns a result whose error is set, and with
\* output_only the returned string is that error.
C3_UnknownExecutorInError ==
    (Returned /\ exec_result # None /\ ~execute_script_known(executor)) =>
        /\ result.error # None
        /\ (outcome = "str" => ret_str = result.error[1])

\* C4: when the executor returns a timed-out outcome, no process of the
\* script's process group is still running.
C4_TimeoutKillsProcessGroup ==
    (pc = "executed" /\ exec_result[1].timed_out) => procs = {}

\* C5: when a run has returned or raised, its temporary file does not
\* exist; a run that aborted before the analysis stage never created one.
C5_TempFileRemoved ==
    pc = "done" =>
        /\ ~tmp_exists
        /\ (result.fabricator_response = "" => ~tmp_created)

\* the Fabricator call of the run came back with empty text
FabricatorReturnedEmpty ==
    /\ Len(calls) = 2
    /\ result.fabricator_response = ""
    /\ exc # "GatewayError"

\* C6: if the Fabricator call returns empty text the run has ended at once:
\* error is the empty-script message, execution is null, no temporary file,
\* no analysis tool and no script process were started, and with
\* output_only the returned string is the error text.
C6_EmptyFabricatorAborts ==
    FabricatorReturnedEmpty =>
        /\ pc = "done"
        /\ outcome = (IF output_only THEN "str" ELSE "dict")
        /\ result.error = Some("Fabricator returned an empty script.")
        /\ result.execution = None
        /\ exec_result = None
        /\ ~tmp_created /\ ~tmp_exists
        /\ analysis_cmds = <<>>
        /\ exec_cmds = <<>>
        /\ procs = {}
        /\ (output_only => ret_str = "Fabricator returned an empty script.")

C6_Witness == FabricatorReturnedEmpty /\ output_only /\ outcome = "str"

\* C7: the script is executed only after static analysis passed: an
\* execution outcome or a launched executor implies shellcheck_passed; and
\* once the analysis tool has exited nonzero the run has ended with no
\* executor launched, execution null and the "<tool> reported errors"
\* message as its error.
C7_ExecutionOnlyAfterAnalysisPassed ==
    /\ (result.execution # None \/ exec_result # None \/ exec_cmds # <<>>)
          => result.shellcheck_passed
    /\ (analysis_rc # None /\ analysis_rc[1] # 0) =>
          /\ Returned
          /\ ~result.shellcheck_passed
          /\ exec_cmds = <<>>
          /\ exec_result = None
          /\ result.execution = None
          /\ result.error = Some(analysis_tool[1]
                                  \o " reported errors -- execution aborted.")

C7_Witness ==
    /\ analysis_cmds = <<<<"shellcheck", "/tmp/tmpXXXX.sh">>>>
    /\ analysis_rc = Some(1)
    /\ Returned

\* C8: a timed-out execution is a soft failure: the returned result keeps
\* the outcome (timed_out, the output captured up to the timeout) and its
\* error is "Execution timed out after <n>s." with n the configured timeout.
C8_TimeoutSoftFailure ==
    (pc = "done" /\ exec_result # None /\ exec_result[1].timed_out) =>
        /\ Returned
        /\ result.execution # None
        /\ result.execution[1].timed_out
        /\ result.execution[1].stdout = DecodeReplace(out_buf)
        /\ result.execution[1].stderr = DecodeReplace(err_buf)
        /\ result.error = Some("Execution timed out after "
                                \o ToString(exec_timeout) \o "s.")

C8_Witness ==
    /\ pc = "done"
    /\ exec_result # None /\ exec_result[1].timed_out
    /\ out_buf = <<"hi">>
    /\ result.execution[1].stdout = "hi"

C10_ExitCodeNullIffTimedOut ==
    exec_result # None =>
        /\ (exec_result[1].returncode = None) <=> exec_result[1].timed_out
        /\ exec_result[1].returncode # None =>
              exec_result[1].returncode[1] \in Int

C10_Witness ==
    /\ exec_result # None
    /\ exec_result[1].timed_out
    /\ exec_result[1].returncode = None

\* C13: resolving a name that is not in the registry fails with the
\* unknown-skill error and does nothing else: an execute_task or create_chat
\* call with such a name ends at once with ValueError, having made no model
\* call, created no temporary file, started no analysis and no script, and
\* having left the registry as it was.
C13_AbsentNameFailsCleanly ==
    [][(pc = "idle" /\ pc' # "idle" /\ skill_name' \notin DOMAIN skills) =>
          /\ pc' = "done"
          /\ outcome' = "raise"
          /\ exc' = "ValueError"
          /\ calls' = <<>>
          /\ ~tmp_created' /\ ~tmp_exists'
          /\ analysis_cmds' = <<>>
          /\ exec_cmds' = <<>>
          /\ procs' = {}
          /\ skills' = skills
          /\ dir_files' = dir_files]_vars

C13_Witness ==
    /\ pc = "done"
    /\ op = "execute"
    /\ skill_name = "nope"
    /\ outcome = "raise" /\ exc = "ValueError"
    /\ calls = <<>>

\* C14: while the service runs, the registry's key set is exactly the set
\* of file stems the last scan of the skills directory found, so a name
\* that is no longer in the directory cannot be resolved; and the service
\* has stopped exactly when the last scan found the directory missing or
\* empty.
C14_RegistryKeysAreStems ==
    /\ alive <=> (dir_exists /\ DOMAIN dir_files # {})
    /\ alive =>
          /\ DOMAIN skills = DOMAIN dir_files
          /\ \A n \in {"bash", "odd", "nope"} :
                n \notin DOMAIN dir_files => ~get_skill_found(skills, n)

\* a run resolved "bash", and a reload has since taken it out
C14_Witness ==
    /\ alive
    /\ pc = "fabricate"
    /\ skill_name = "bash"
    /\ skill_data # None
    /\ DOMAIN dir_files = {"odd"}
    /\ DOMAIN skills = {"odd"}

\* C15: for an executor that is no known command template the execution
\* stage raises nothing and launches nothing: _execute_script returns at
\* once the outcome with returncode -1, "Unknown executor: <name>" in
\* stderr, empty stdout and timed_out false.
C15_UnknownExecutorSentinel ==
    (op = "execute" /\ skill_data # None /\ ~execute_script_known(executor))
    =>  /\ pc # "running"
        /\ exec_cmds = <<>>
        /\ procs = {}
        /\ exc \notin {"FileNotFoundError", "UnicodeDecodeError"}
        /\ pc = "executed" => exec_result # None
        /\ exec_result # None =>
              exec_result[1] = [stdout |-> "",
                                stderr |-> "Unknown executor: " \o executor,
                                returncode |-> Some(-1),
                                timed_out |-> FALSE]

C15_Witness ==
    /\ pc = "executed"
    /\ executor = "zsh"
    /\ exec_result # None
    /\ exec_result[1].returncode = Some(-1)

\* the analysis stage of the run has returned
AnalysisReturned ==
    /\ op = "execute"
    /\ tmp_created
    /\ pc # "analyze"
    /\ ~(pc = "done" /\ exc \in {"WriteError", "OSError"})

\* the run went on to the execution stage
ProceededToExecution ==
    \/ pc \in {"execute", "running", "executed"}
    \/ pc = "done" /\ exec_result # None
    \/ pc = "done" /\ exc \in {"FileNotFoundError", "UnicodeDecodeError"}

\* C17: the analysis stage passes without running a tool in exactly three
\* cases, and the run then proceeds to execution: the skill names no tool
\* (empty output), the tool is not a known one (warning as output), the
\* tool's binary is not found (warning as output); in every other case the
\* tool is invoked once and the stage passes exactly when it exits with 0.
C17_AdvisoryAnalysis ==
    AnalysisReturned =>
        LET noTool  == analysis_tool = None \/ analysis_tool = Some("")
            unknown == ~noTool /\ analysis_tool[1] \notin {"shellcheck"}
            missing == analysis_which = "missing"
        IN  /\ noTool =>
                  /\ result.shellcheck_passed
                  /\ result.shellcheck_output = ""
                  /\ analysis_cmds = <<>>
            /\ unknown =>
                  /\ result.shellcheck_passed
                  /\ result.shellcheck_output =
                        "[mKBI] Unknown static analysis tool '"
                          \o analysis_tool[1] \o "' -- skipping."
                  /\ analysis_cmds = <<>>
            /\ missing =>
                  /\ result.shellcheck_passed
                  /\ result.shellcheck_output =
                        "[mKBI] shellcheck not found on PATH -- skipping static analysis."
                  /\ analysis_cmds = <<>>
            /\ (noTool \/ unknown \/ missing) => ProceededToExecution
            /\ ~(noTool \/ unknown \/ missing) =>
                  /\ analysis_which = "found"
                  /\ Len(analysis_cmds) = 1
                  /\ analysis_rc # None
                  /\ result.shellcheck_passed <=> analysis_rc[1] = 0
                  /\ result.shellcheck_passed <=> ProceededToExecution

\* an unknown tool: the stage passed with the warning and the script ran
C17_Witness ==
    /\ analysis_tool = Some("pylint")
    /\ result.shellcheck_passed
    /\ result.shellcheck_output # ""
    /\ pc = "executed"

\* the stages of a run in their order: PENDING (idle), INTERPRETING,
\* FABRICATING, ANALYZING (the temp file, then the tool), EXECUTING (launch,
\* wait, record), terminal
StageRank(p) ==
    CASE p = "idle"      -> 0
      [] p = "interpret" -> 1
      [] p = "fabricate" -> 2
      [] p = "tempfile"  -> 3
      [] p = "analyze"   -> 4
      [] p = "execute"   -> 5
      [] p = "running"   -> 6
      [] p = "executed"  -> 7
      [] p = "done"      -> 8

\* C18: a run that resolved its skill is one forward pass: its position
\* only moves to a later stage, the run makes exactly one Interpreter call
\* (made when it leaves the Interpreter stage), then at most one Fabricator
\* call, at most one analysis invocation and at most one script launch, and
\* no stage's work exists before the work of its predecessor.
C18_SingleForwardPass ==
    /\ []((op = "execute" /\ skill_data # None) =>
            /\ Len(calls) <= 2
            /\ StageRank(pc) >= 2 =>
                  (Len(calls) >= 1 /\ calls[1].stage = "interpreter")
            /\ Len(calls) = 2 => calls[2].stage = "fabricator"
            /\ StageRank(pc) <= 1 => calls = <<>>
            /\ StageRank(pc) <= 2 => (Len(calls) <= 1 /\ ~tmp_created)
            /\ Len(analysis_cmds) <= 1
            /\ StageRank(pc) <= 4 => (analysis_cmds = <<>> /\ exec_cmds = <<>>)
            /\ Len(exec_cmds) <= 1
            /\ StageRank(pc) <= 5 => (exec_cmds = <<>> /\ exec_result = None))
    /\ [][(op = "execute" /\ pc' # pc /\ pc # "done") =>
            StageRank(pc') > StageRank(pc)]_vars

\* C19: every model call is made with the history of the named skill, as
\* the registry holds it when the call is made, followed by exactly one
\* user message: the request for the Interpreter call; the request, then
\* " [KCR] ", then the Interpreter's response for the Fabricator call.
C19_CallMessages ==
    [][(calls' # calls /\ calls' # <<>>) =>
          LET c == calls'[Len(calls')] IN
          /\ calls' = Append(calls, c)
          /\ c.stage = "interpreter" =>
                c.messages = skills[skill_name'].interpreter
                    \o <<[role |-> "user", content |-> user_request']>>
          /\ c.stage = "fabricator" =>
                /\ Len(calls) = 1
                /\ c.messages = skills[skill_name].fabricator
                    \o <<[role |-> "user",
                          content |-> user_request \o " [KCR] "
                                        \o result.interpreter_response]>>]_vars

C19_Witness ==
    /\ Len(calls) = 2
    /\ result.interpreter_response = "ls -la"
    /\ calls[2].messages =
          <<[role |-> "system", content |-> "fab-A"],
            [role |-> "user", content |-> "list files [KCR] ls -la"]>>

\* C21: a create_chat call is stage 1 and nothing more: it ends in one
\* step, having made exactly one model call, the Interpreter call with the
\* skill's interpreter history and the request (none when the name does
\* not resolve), and no Fabricator call; it creates no temporary file, runs
\* no analysis tool, launches no script, and leaves the registry and the
\* skills directory as they were.
C21_InterpretIsStageOneOnly ==
    /\ [](op = "interpret" =>
            /\ pc = "done"
            /\ Len(calls) <= 1
            /\ \A i \in 1..Len(calls) : calls[i].stage = "interpreter"
            /\ (calls = <<>>) <=> (outcome = "raise" /\ exc = "ValueError")
            /\ ~tmp_created /\ ~tmp_exists
            /\ analysis_cmds = <<>>
            /\ analysis_which = "none"
            /\ analysis_rc = None
            /\ exec_cmds = <<>>
            /\ exec_result = None
            /\ procs = {}
            /\ skill_data = None)
    /\ [][(op # "interpret" /\ op' = "interpret") =>
            /\ skills' = skills
            /\ dir_files' = dir_files
            /\ dir_exists' = dir_exists
            /\ alive' = alive
            /\ skill_name' \in DOMAIN skills =>
                  calls' = <<[stage |-> "interpreter",
                              messages |-> skills[skill_name'].interpreter
                                  \o <<[role |-> "user",
                                        content |-> user_request']>>]>>
            /\ skill_name' \notin DOMAIN skills => calls' = <<>>]_vars

C21_Witness ==
    /\ op = "interpret"
    /\ pc = "done"
    /\ outcome = "str"
    /\ ret_str = "ls -la"
    /\ calls = <<[stage |-> "interpreter",
                  messages |-> <<[role |-> "system", content |-> "interp-A"],
                                 [role |-> "user",
                                  content |-> "list files"]>>]>>

----------------------------------------------------------------------------
(* Termination (SpecLive).                                                 *)

----------------------------------------------------------------------------
(* Properties of the step-by-step load (SpecLoad).                         *)

\* the registries load_skills returns
CompleteRegistries ==
    {load_skills(f) : f \in {g \in DirChoices : DOMAIN g # {}}}

\* C16: while a reload runs beside readers, self.skills and every value a
\* reader got from it is a complete registry: the active reference changes
\* only in the single rebind, when every file of the scan has been read,
\* and it changes to the registry of that scan; a partly built registry is
\* never visible.
C16_ReadersSeeCompleteRegistry ==
    /\ [](/\ skills \in CompleteRegistries
          /\ read_seen # None => read_seen[1] \in CompleteRegistries)
    /\ [][skills' # skills =>
            /\ load_pc = "loop"
            /\ load_todo = <<>>
            /\ DOMAIN load_local = DOMAIN dir_files
            /\ skills' = load_skills(dir_files)]_vars

\* a reader is between its two reads while the new registry is half built
C16_Witness ==
    /\ load_pc = "loop"
    /\ DOMAIN load_local = {"bash"}
    /\ load_todo = <<"odd">>
    /\ read_pc = "checked"
    /\ read_seen = Some(skills)

\* C22: the active registry is never empty: the service starts with a
\* loaded registry, and a load that finds the skills directory missing or
\* without any file stops the service with the active registry left as it
\* was, neither emptied nor partly replaced.
C22_RegistryNeverEmpty ==
    /\ [](DOMAIN skills # {})
    /\ [][(load_pc' # load_pc \/ alive' # alive) =>
            IF ~dir_exists' \/ (load_pc = "loop" /\ DOMAIN dir_files = {})
            THEN ~alive' /\ skills' = skills
            ELSE alive']_vars

\* a reload has found the directory empty and stopped the service
C22_Witness ==
    /\ ~alive
    /\ dir_exists
    /\ DOMAIN dir_files = {}
    /\ load_pc = "idle"
    /\ DOMAIN skills = {"bash", "odd"}

----------------------------------------------------------------------------
(* Properties of the HTTP endpoints (SpecHttp).                            *)

HttpAuthorized == mkbi_token = "" \/ http_cred = Some(mkbi_token)

\* the request got past check_auth, into its handler
HttpReachedHandler ==
    \/ http_pc \in {"handler", "checked", "facade"}
    \/ http_pc = "responded" /\ http_status # 401

\* C11: a request to a gated endpoint reaches the facade if and only if no
\* token is configured or its bearer credential equals the configured
\* token; otherwise it is answered 401 and nothing is done for it: no
\* reload, no model call, no temporary file, no analysis, no script.
C11_GateIffAuthorized ==
    http_pc # "none" =>
        /\ HttpReachedHandler <=> HttpAuthorized
        /\ ~HttpAuthorized =>
              /\ http_pc = "responded"
              /\ http_status = 401
              /\ pc = "idle" /\ op = "none"
              /\ calls = <<>>
              /\ ~tmp_created /\ ~tmp_exists
              /\ analysis_cmds = <<>>
              /\ exec_cmds = <<>>
              /\ procs = {}

C11_Witness ==
    /\ mkbi_token = "s3cret"
    /\ http_cred = Some("wrong")
    /\ http_endpoint = "skill_execute"
    /\ http_status = 401

\* C12: an execute or interpret request is answered 404 without a model
\* call when its skill is not in the registry, and under every interleaving
\* with reload_skills it never ends in the unhandled unknown-skill failure:
\* a skill that disappears after the endpoint's existence check still gives
\* 404 or a normal result.
C12_UnknownSkillIs404 ==
    (http_pc = "responded" /\ http_endpoint # "reload") =>
        /\ http_status = 404 => (calls = <<>> /\ pc = "idle")
        /\ ~(outcome = "raise" /\ exc = "ValueError")

====
